---- MODULE Spec2Model ----
(***************************************************************************)
(* Model of package/android/src/main/cpp/yuv_to_rgb.cpp: the JNI entry     *)
(* point nativeYUV420toARGB8888 (NV21 -> ARGB8888) and its helper clamp.   *)
(*                                                                         *)
(* One native call is a small state machine per thread: acquire the two    *)
(* array handles, compute frameSize, run the two nested loops (one pixel   *)
(* is three steps: luma read, chroma fetch, store), release both handles.  *)
(* Java arrays live in a heap shared by the threads.  All C++ `int` values *)
(* are 32-bit two's complement.                                            *)
(***************************************************************************)
EXTENDS Integers, Sequences, FiniteSets, TLC

\* ------------------------------------------------------------------------
\* Bounds of the exploration
\* ------------------------------------------------------------------------
MaxHalfWidth == 2
MaxHalfHeight == 2

\* Pixels a call may start; above every valid frame of the exploration, so it
\* only cuts runs whose dimensions do not describe their buffers.
PixelCap == (2 * MaxHalfWidth + 1) * (2 * MaxHalfHeight + 1)

Threads == {"t1", "t2"}
ByteRefs == {"a", "b"}
IntRefs == {"o1", "o2"}

\* ------------------------------------------------------------------------
\* 32-bit int arithmetic
\* ------------------------------------------------------------------------
MaxInt32 == 2147483647
MinInt32 == -MaxInt32 - 1

\* The low 31 bits of a 32-bit two's complement pattern.
Low31(n) == IF n >= 0 THEN n ELSE (n + MaxInt32) + 1

RECURSIVE OrBits(_, _)
OrBits(a, b) ==
  IF a = 0 THEN b
  ELSE IF b = 0 THEN a
  ELSE (IF a % 2 = 1 \/ b % 2 = 1 THEN 1 ELSE 0) + 2 * OrBits(a \div 2, b \div 2)

RECURSIVE AndBits(_, _)
AndBits(a, b) ==
  IF a = 0 \/ b = 0 THEN 0
  ELSE (IF a % 2 = 1 /\ b % 2 = 1 THEN 1 ELSE 0) + 2 * AndBits(a \div 2, b \div 2)

\* a | b on 32-bit patterns
BitOr32(a, b) ==
  LET lo == OrBits(Low31(a), Low31(b))
  IN  IF a < 0 \/ b < 0 THEN (lo - MaxInt32) - 1 ELSE lo

\* a & b on 32-bit patterns
BitAnd32(a, b) ==
  LET lo == AndBits(Low31(a), Low31(b))
  IN  IF a < 0 /\ b < 0 THEN (lo - MaxInt32) - 1 ELSE lo

RECURSIVE Pow2(_)
Pow2(n) == IF n = 0 THEN 1 ELSE 2 * Pow2(n - 1)

\* A division by 2^n that rounds toward zero, as x / (1 << n) does.
SarTrunc(x, n) ==
  IF x >= 0 THEN x \div Pow2(n) ELSE -((-x) \div Pow2(n))

\* x >> n on a signed int: the low bits move down, the sign bit is copied in.
Sar32(x, n) ==
  IF x >= 0 THEN x \div Pow2(n)
  ELSE (Low31(x) \div Pow2(n)) - Pow2(31 - n)

\* The four bytes of a 32-bit pattern, least significant first.
Limbs(n) ==
  << n % 256, (n \div 256) % 256, (n \div 65536) % 256, (n \div 16777216) % 256 >>

\* The int whose pattern has these four bytes.
FromLimbs(r) ==
  (IF r[4] >= 128 THEN r[4] - 256 ELSE r[4]) * 16777216
    + r[3] * 65536 + r[2] * 256 + r[1]

\* The low 32 bits of a * b (what the multiply instruction leaves in an int).
MulWrap32(a, b) ==
  LET p == Limbs(a)
      q == Limbs(b)
      c0 == p[1] * q[1]
      c1 == p[1] * q[2] + p[2] * q[1] + (c0 \div 256)
      c2 == p[1] * q[3] + p[2] * q[2] + p[3] * q[1] + (c1 \div 256)
      c3 == p[1] * q[4] + p[2] * q[3] + p[3] * q[2] + p[4] * q[1] + (c2 \div 256)
  IN  FromLimbs(<< c0 % 256, c1 % 256, c2 % 256, c3 % 256 >>)

\* TRUE when a * b is not representable in an int (signed overflow).
MulOverflows(a, b) ==
  LET r == MulWrap32(a, b)
  IN  IF a = 0 \/ b = 0 THEN FALSE
      ELSE IF a = -1 THEN b = MinInt32
      ELSE ~(r % a = 0 /\ r \div a = b)

\* The low 32 bits of a + b.
AddWrap32(a, b) ==
  IF a > 0 /\ b > 0 /\ a > MaxInt32 - b
    THEN ((a - MaxInt32) - 1) + ((b - MaxInt32) - 1)
  ELSE IF a < 0 /\ b < 0 /\ a < MinInt32 - b
    THEN ((a + MaxInt32) + 1) + ((b + MaxInt32) + 1)
  ELSE a + b

AddOverflows(a, b) ==
  \/ a > 0 /\ b > 0 /\ a > MaxInt32 - b
  \/ a < 0 /\ b < 0 /\ a < MinInt32 - b

\* ------------------------------------------------------------------------
\* Per-pixel arithmetic
\* ------------------------------------------------------------------------
\* A modular narrowing to uint8_t in place of the saturation.
clampWrap(x) == x % 256

clamp(x) == IF x < 0 THEN 0 ELSE IF x > 255 THEN 255 ELSE x % 256

\* The pedestal subtraction without the floor at zero.
LumaNoFloor(b) == BitAnd32(255, b) - 16

\* int y = (0xff & yuv[yp]) - 16; if (y < 0) y = 0;   (b is the jbyte read)
LumaOf(b) ==
  LET y == BitAnd32(255, b) - 16
  IN  IF y < 0 THEN 0 ELSE y

\* (0xff & yuv[uvp++]) - 128
ChromaOf(b) == BitAnd32(255, b) - 128

\* The post-shift term left out.
BiasNone(c) == c

\* (c >> 10) + 2
Bias(c) == c + 2

\* The word stored for accumulators y, u, v.
Argb(y, u, v) ==
  LET y1192 == MulWrap32(1192, y)
      r0 == y1192 + MulWrap32(1634, v)
      g0 == (y1192 - MulWrap32(833, v)) - MulWrap32(400, u)
      b0 == y1192 + MulWrap32(2066, u)
      r == clamp(Bias(Sar32(r0, 10)))
      g == clamp(Bias(Sar32(g0, 10)))
      b == clamp(Bias(Sar32(b0, 10)))
  IN  BitOr32(BitOr32(BitOr32(-16777216, MulWrap32(r, 65536)),
                      MulWrap32(g, 256)), b)

\* ------------------------------------------------------------------------
\* JNI array release (mode 0: copy back and free; JNI_ABORT: free only)
\* ------------------------------------------------------------------------
JNI_ABORT == 2

\* The array after Release<T>ArrayElements(arr, buf, mode).
ReleaseElements(arr, buf, isCopy, mode) ==
  IF isCopy /\ mode # JNI_ABORT THEN buf ELSE arr

RgbReleaseMode == 0

YuvReleaseMode == JNI_ABORT

\* ------------------------------------------------------------------------
\* State
\* ------------------------------------------------------------------------
VARIABLES
  heapBytes,   \* Java byte arrays: ByteRefs -> sequence of jbyte (-128..127)
  heapInts,    \* Java int arrays: IntRefs -> sequence of jint
  call,        \* per thread: the arguments of its call and what the JVM does
  pc,          \* per thread: position in the function
  yuv,         \* per thread: jbyte* yuv ("unset", "null", "valid", "released")
  rgb,         \* per thread: jint* rgb ("unset", "null", "direct", "copy", "released")
  rgbCopy,     \* per thread: the native buffer when rgb is a copy
  frameSize, i, x, yp, uvp, y, u, v,   \* the int locals, per stack frame
  vAt, uAt,    \* input index the current v / u was loaded from (-1: none)
  reads,       \* per thread: input indices read through yuv
  writes,      \* per thread: output indices written through rgb, in order
  released     \* per thread: Release calls made on an acquired handle

vars == << heapBytes, heapInts, call, pc, yuv, rgb, rgbCopy,
           frameSize, i, x, yp, uvp, y, u, v, vAt, uAt, reads, writes, released >>

\* One static set of locals shared by every invocation.
FrameStatic(t) == "t1"

\* The locals have automatic storage: each invocation has its own.
Frame(t) == t

\* The chroma row taken at full resolution.
ChromaRowFull(row) == row

\* i >> 1: two luma rows share one chroma row.
ChromaRow(row) == Sar32(row, 1)

\* A chroma pair fetched at every pixel.
EvenColumnAlways(col) == TRUE

\* (x & 1) == 0
EvenColumn(col) == BitAnd32(col, 1) = 0

\* What a wild read can return.
Garbage == {0, -1}

\* ------------------------------------------------------------------------
\* Inputs
\* ------------------------------------------------------------------------
\* The jbyte holding the unsigned byte b.
ToJByte(b) == IF b > 127 THEN b - 256 ELSE b

\* An NV21 frame with one luma value and one chroma pair.
Uniform(w, h, Y, V, U) ==
  [k \in 1..((w * h * 3) \div 2) |->
     ToJByte(IF k <= w * h THEN Y ELSE IF (k - w * h) % 2 = 1 THEN V ELSE U)]

\* n bytes, pairwise different for n <= 256.
Ramp(n, seed) == [k \in 1..n |-> ToJByte((seed + 37 * k) % 256)]

\* A 2x2 frame with two luma values and one chroma pair.
TwoLuma(Y1, Y2, V, U) ==
  << ToJByte(Y1), ToJByte(Y2), ToJByte(Y1), ToJByte(Y2), ToJByte(V), ToJByte(U) >>

\* A freshly allocated Java int[n].
FreshInts(n) == [k \in 1..n |-> 0]

NoCall ==
  [active |-> FALSE, yuv420sp |-> "a", rgbOut |-> "o1", width |-> 0, height |-> 0,
   pinYuv |-> "ok", pinRgb |-> "direct"]

Call(in, out, w, h, pinYuv, pinRgb) ==
  [active |-> TRUE, yuv420sp |-> in, rgbOut |-> out, width |-> w, height |-> h,
   pinYuv |-> pinYuv, pinRgb |-> pinRgb]

\* One call on thread t1; t2 makes none.
Single(frame, w, h, outLen, pinYuv, pinRgb) ==
  [bytes |-> [r \in ByteRefs |-> IF r = "a" THEN frame ELSE << >>],
   ints  |-> [r \in IntRefs |-> IF r = "o1" THEN FreshInts(outLen) ELSE << >>],
   calls |-> [t \in Threads |->
                IF t = "t1" THEN Call("a", "o1", w, h, pinYuv, pinRgb) ELSE NoCall]]

\* Two calls, each with its own output array; in2 may be the array of t1.
Pair(frameA, frameB, w1, h1, in2, w2, h2, pinRgb2) ==
  [bytes |-> [r \in ByteRefs |-> IF r = "a" THEN frameA ELSE frameB],
   ints  |-> [r \in IntRefs |->
                IF r = "o1" THEN FreshInts(w1 * h1) ELSE FreshInts(w2 * h2)],
   calls |-> [t \in Threads |->
                IF t = "t1" THEN Call("a", "o1", w1, h1, "ok", "direct")
                ELSE Call(in2, "o2", w2, h2, "ok", pinRgb2)]]

EvenDims ==
  {<< 2 * a, 2 * b >> : a \in 1..MaxHalfWidth, b \in 1..MaxHalfHeight}

FrameLen(d) == (d[1] * d[2] * 3) \div 2

\* Frames offered for dimensions d.
Patterns(d) ==
  { Uniform(d[1], d[2], 16, 128, 128),
    Uniform(d[1], d[2], 0, 128, 128),
    Uniform(d[1], d[2], 235, 128, 128),
    Uniform(d[1], d[2], 81, 240, 90),
    Ramp(FrameLen(d), 3),
    Ramp(FrameLen(d), 120) }

ValidSingles ==
  UNION {{Single(f, d[1], d[2], d[1] * d[2], "ok", m) :
            f \in Patterns(d), m \in {"direct", "copy"}} : d \in EvenDims}

\* Calls whose dimensions or array lengths break the contract.
InvalidSingles ==
  { Single(Ramp(9, 3), 3, 2, 6, "ok", "direct"),
    Single(Ramp(9, 3), 2, 3, 6, "ok", "direct"),
    Single(Ramp(7, 3), 2, 2, 4, "ok", "direct"),
    Single(Ramp(7, 3), 2, 2, 4, "ok", "copy"),
    Single(Ramp(6, 3), 2, 2, 5, "ok", "direct"),
    Single(Ramp(11, 3), 2, 4, 8, "ok", "direct"),
    Single(Ramp(12, 3), 4, 2, 7, "ok", "direct"),
    Single(Ramp(6, 3), 0, 2, 4, "ok", "direct"),
    Single(Ramp(6, 3), 65536, 32768, 4, "ok", "direct") }

\* Calls in which the JVM fails to hand out one of the buffers.
PinFailures ==
  { Single(Uniform(2, 2, 16, 128, 128), 2, 2, 4, "null", "direct"),
    Single(Uniform(2, 2, 16, 128, 128), 2, 2, 4, "ok", "null"),
    Single(Uniform(2, 2, 16, 128, 128), 2, 2, 4, "null", "null"),
    Single(Ramp(6, 3), 2, 0, 4, "null", "null") }

\* Two calls at once: on one shared input array, and on two arrays.
Pairs ==
  UNION {{Pair(Ramp(FrameLen(d), 3), << >>, d[1], d[2], "a", d[1], d[2], m) :
            m \in {"direct", "copy"}} : d \in EvenDims}
  \cup {Pair(Ramp(FrameLen(d), 3), Ramp(6, 120), d[1], d[2], "b", 2, 2, "direct") :
          d \in EvenDims}

Scenarios == ValidSingles \cup InvalidSingles \cup PinFailures \cup Pairs

\* Chroma bytes of the per-pixel sweep.
SweepChroma == {0, 64, 90, 128, 192, 240, 255}

\* 2x2 frames over every luma byte, paired with the pedestal, the next value
\* and the top of the studio range.
PixelScenarios ==
  {Single(TwoLuma(Y1, Y2, V, U), 2, 2, 4, "ok", "direct") :
     Y1 \in 0..255, Y2 \in {16, 235}, V \in SweepChroma, U \in SweepChroma}
  \cup {Single(TwoLuma(Y1, Y1 + 1, V, U), 2, 2, 4, "ok", "copy") :
          Y1 \in 0..254, V \in {128}, U \in {128}}
  \cup InvalidSingles \cup PinFailures

InitFrom(sc) ==
  /\ heapBytes = sc.bytes
  /\ heapInts = sc.ints
  /\ call = sc.calls
  /\ pc = [t \in Threads |-> IF sc.calls[t].active THEN "getYuv" ELSE "idle"]
  /\ yuv = [t \in Threads |-> "unset"]
  /\ rgb = [t \in Threads |-> "unset"]
  /\ rgbCopy = [t \in Threads |-> << >>]
  /\ frameSize = [t \in Threads |-> 0]
  /\ i = [t \in Threads |-> 0]
  /\ x = [t \in Threads |-> 0]
  /\ yp = [t \in Threads |-> 0]
  /\ uvp = [t \in Threads |-> 0]
  /\ y = [t \in Threads |-> 0]
  /\ u = [t \in Threads |-> 0]
  /\ v = [t \in Threads |-> 0]
  /\ vAt = [t \in Threads |-> -1]
  /\ uAt = [t \in Threads |-> -1]
  /\ reads = [t \in Threads |-> {}]
  /\ writes = [t \in Threads |-> << >>]
  /\ released = [t \in Threads |-> [yuv |-> 0, rgb |-> 0]]

Init == \E sc \in Scenarios : InitFrom(sc)

InitPixel == \E sc \in PixelScenarios : InitFrom(sc)

\* ------------------------------------------------------------------------
\* Memory access through the native pointers
\* ------------------------------------------------------------------------
\* Outcomes of reading yuv[idx]: << b >> is the byte read, << >> a fault.
\* A null or out-of-range access is undefined: it faults or reads anything.
Load(t, idx) ==
  LET arr == heapBytes[call[t].yuv420sp]
  IN  IF yuv[t] = "valid" /\ idx >= 0 /\ idx < Len(arr)
      THEN {<< arr[idx + 1] >>}
      ELSE {<< >>} \cup {<< g >> : g \in Garbage}

\* Outcomes of writing rgb[idx]: "ok" stores the word; a null or out-of-range
\* access is undefined: it faults or lands outside the array.
StoreOutcomes(t, idx) ==
  LET n == Len(heapInts[call[t].rgbOut])
  IN  IF rgb[t] \in {"direct", "copy"} /\ idx >= 0 /\ idx < n
      THEN {"ok"}
      ELSE {"fault", "stray"}

\* The process dies (SIGSEGV / abort): no call still running ever returns.
Fault ==
  /\ pc' = [s \in Threads |-> IF pc[s] \in {"idle", "done"} THEN pc[s] ELSE "crashed"]
  /\ UNCHANGED << heapBytes, heapInts, call, yuv, rgb, rgbCopy,
                  frameSize, i, x, yp, uvp, y, u, v, vAt, uAt, reads, writes, released >>

Goto(t, l) == pc' = [pc EXCEPT ![t] = l]

\* ------------------------------------------------------------------------
\* The steps of one call
\* ------------------------------------------------------------------------
\* jbyte* yuv = env->GetByteArrayElements(yuv420sp, NULL);
GetByteArrayElements(t) ==
  /\ pc[t] = "getYuv"
  /\ yuv' = [yuv EXCEPT ![t] = IF call[t].pinYuv = "ok" THEN "valid" ELSE "null"]
  /\ Goto(t, "getRgb")
  /\ UNCHANGED << heapBytes, heapInts, call, rgb, rgbCopy,
                  frameSize, i, x, yp, uvp, y, u, v, vAt, uAt, reads, writes, released >>

\* jint* rgb = env->GetIntArrayElements(rgbOut, NULL);
GetIntArrayElements(t) ==
  /\ pc[t] = "getRgb"
  /\ rgb' = [rgb EXCEPT ![t] = call[t].pinRgb]
  /\ rgbCopy' = [rgbCopy EXCEPT ![t] =
                   IF call[t].pinRgb = "copy" THEN heapInts[call[t].rgbOut] ELSE << >>]
  /\ Goto(t, "frameSize")
  /\ UNCHANGED << heapBytes, heapInts, call, yuv,
                  frameSize, i, x, yp, uvp, y, u, v, vAt, uAt, reads, writes, released >>

\* int frameSize = width * height; int j = 0; int yp = 0; (and int i = 0)
\* A signed overflow is undefined: the product wraps, or the build traps.
ComputeFrameSize(t) ==
  /\ pc[t] = "frameSize"
  /\ \/ /\ frameSize' = [frameSize EXCEPT ![Frame(t)] =
                           MulWrap32(call[t].width, call[t].height)]
        /\ yp' = [yp EXCEPT ![Frame(t)] = 0]
        /\ i' = [i EXCEPT ![Frame(t)] = 0]
        /\ Goto(t, "row")
        /\ UNCHANGED << heapBytes, heapInts, call, yuv, rgb, rgbCopy,
                        x, uvp, y, u, v, vAt, uAt, reads, writes, released >>
     \/ /\ MulOverflows(call[t].width, call[t].height)
        /\ Fault

\* for (...; i < height; ...) { int uvp = frameSize + (i >> 1) * width;
\*                              int u = 0; int v = 0;  (and int x = 0)
RowBegin(t) ==
  LET f == Frame(t)
      off == MulWrap32(ChromaRow(i[f]), call[t].width)
  IN  /\ pc[t] = "row"
      /\ i[f] < call[t].height
      /\ \/ /\ uvp' = [uvp EXCEPT ![f] = AddWrap32(frameSize[f], off)]
            /\ u' = [u EXCEPT ![f] = 0]
            /\ v' = [v EXCEPT ![f] = 0]
            /\ x' = [x EXCEPT ![f] = 0]
            /\ vAt' = [vAt EXCEPT ![f] = -1]
            /\ uAt' = [uAt EXCEPT ![f] = -1]
            /\ Goto(t, "col")
            /\ UNCHANGED << heapBytes, heapInts, call, yuv, rgb, rgbCopy,
                            frameSize, i, yp, y, reads, writes, released >>
         \/ /\ \/ MulOverflows(ChromaRow(i[f]), call[t].width)
               \/ AddOverflows(frameSize[f], off)
            /\ Fault

\* the outer loop ends: i >= height
LoopExit(t) ==
  /\ pc[t] = "row"
  /\ i[Frame(t)] >= call[t].height
  /\ Goto(t, "relYuv")
  /\ UNCHANGED << heapBytes, heapInts, call, yuv, rgb, rgbCopy,
                  frameSize, i, x, yp, uvp, y, u, v, vAt, uAt, reads, writes, released >>

\* for (...; x < width; ...) { int y = (0xff & yuv[yp]) - 16; if (y < 0) y = 0;
ReadLuma(t) ==
  LET f == Frame(t)
  IN  /\ pc[t] = "col"
      /\ x[f] < call[t].width
      /\ yp[f] < PixelCap
      /\ \E o \in Load(t, yp[f]) :
           IF o = << >> THEN Fault
           ELSE /\ y' = [y EXCEPT ![f] = LumaOf(o[1])]
                /\ reads' = [reads EXCEPT ![t] = @ \cup {yp[f]}]
                /\ Goto(t, "chroma")
                /\ UNCHANGED << heapBytes, heapInts, call, yuv, rgb, rgbCopy,
                                frameSize, i, x, yp, uvp, u, v, vAt, uAt, writes, released >>

\* the inner loop ends: x >= width; i++
RowEnd(t) ==
  LET f == Frame(t)
  IN  /\ pc[t] = "col"
      /\ x[f] >= call[t].width
      /\ i' = [i EXCEPT ![f] = @ + 1]
      /\ Goto(t, "row")
      /\ UNCHANGED << heapBytes, heapInts, call, yuv, rgb, rgbCopy,
                      frameSize, x, yp, uvp, y, u, v, vAt, uAt, reads, writes, released >>

\* if ((x & 1) == 0) { v = (0xff & yuv[uvp++]) - 128; u = (0xff & yuv[uvp++]) - 128; }
FetchChroma(t) ==
  LET f == Frame(t)
  IN  /\ pc[t] = "chroma"
      /\ IF EvenColumn(x[f])
         THEN \E ov \in Load(t, uvp[f]) :
                IF ov = << >> THEN Fault
                ELSE \E ou \in Load(t, uvp[f] + 1) :
                       IF ou = << >> THEN Fault
                       ELSE /\ v' = [v EXCEPT ![f] = ChromaOf(ov[1])]
                            /\ u' = [u EXCEPT ![f] = ChromaOf(ou[1])]
                            /\ vAt' = [vAt EXCEPT ![f] = uvp[f]]
                            /\ uAt' = [uAt EXCEPT ![f] = uvp[f] + 1]
                            /\ uvp' = [uvp EXCEPT ![f] = @ + 2]
                            /\ reads' = [reads EXCEPT ![t] = @ \cup {uvp[f], uvp[f] + 1}]
                            /\ Goto(t, "store")
                            /\ UNCHANGED << heapBytes, heapInts, call, yuv, rgb, rgbCopy,
                                            frameSize, i, x, yp, y, writes, released >>
         ELSE /\ Goto(t, "store")
              /\ UNCHANGED << heapBytes, heapInts, call, yuv, rgb, rgbCopy,
                              frameSize, i, x, yp, uvp, y, u, v, vAt, uAt,
                              reads, writes, released >>

\* r, g, b from y, u, v; rgb[yp] = 0xff000000 | (r << 16) | (g << 8) | b; yp++; x++
StorePixel(t) ==
  LET f == Frame(t)
      word == Argb(y[f], u[f], v[f])
      k == yp[f]
  IN  /\ pc[t] = "store"
      /\ \E o \in StoreOutcomes(t, k) :
           IF o = "fault" THEN Fault
           ELSE /\ IF o = "ok" /\ rgb[t] = "direct"
                   THEN heapInts' = [heapInts EXCEPT ![call[t].rgbOut][k + 1] = word]
                   ELSE UNCHANGED heapInts
                /\ IF o = "ok" /\ rgb[t] = "copy"
                   THEN rgbCopy' = [rgbCopy EXCEPT ![t][k + 1] = word]
                   ELSE UNCHANGED rgbCopy
                /\ writes' = [writes EXCEPT ![t] = Append(@, k)]
                /\ yp' = [yp EXCEPT ![f] = @ + 1]
                /\ x' = [x EXCEPT ![f] = @ + 1]
                /\ Goto(t, "col")
                /\ UNCHANGED << heapBytes, call, yuv, rgb,
                                frameSize, i, uvp, y, u, v, vAt, uAt, reads, released >>

\* env->ReleaseByteArrayElements(yuv420sp, yuv, JNI_ABORT);
\* Releasing a null pointer is outside the JNI contract: nothing happens, or
\* the runtime aborts.
ReleaseByteArrayElements(t) ==
  /\ pc[t] = "relYuv"
  /\ \/ /\ yuv[t] = "valid"
        /\ yuv' = [yuv EXCEPT ![t] = "released"]
        /\ heapBytes' = [heapBytes EXCEPT ![call[t].yuv420sp] =
                           ReleaseElements(@, @, FALSE, YuvReleaseMode)]
        /\ released' = [released EXCEPT ![t].yuv = @ + 1]
        /\ Goto(t, "relRgb")
        /\ UNCHANGED << heapInts, call, rgb, rgbCopy,
                        frameSize, i, x, yp, uvp, y, u, v, vAt, uAt, reads, writes >>
     \/ /\ yuv[t] = "null"
        /\ Goto(t, "relRgb")
        /\ UNCHANGED << heapBytes, heapInts, call, yuv, rgb, rgbCopy,
                        frameSize, i, x, yp, uvp, y, u, v, vAt, uAt, reads, writes, released >>
     \/ /\ yuv[t] = "null"
        /\ Fault

\* env->ReleaseIntArrayElements(rgbOut, rgb, 0);
ReleaseIntArrayElements(t) ==
  /\ pc[t] = "relRgb"
  /\ \/ /\ rgb[t] \in {"direct", "copy"}
        /\ heapInts' = [heapInts EXCEPT ![call[t].rgbOut] =
                          ReleaseElements(@, rgbCopy[t], rgb[t] = "copy", RgbReleaseMode)]
        /\ rgb' = [rgb EXCEPT ![t] = "released"]
        /\ released' = [released EXCEPT ![t].rgb = @ + 1]
        /\ Goto(t, "done")
        /\ UNCHANGED << heapBytes, call, yuv, rgbCopy,
                        frameSize, i, x, yp, uvp, y, u, v, vAt, uAt, reads, writes >>
     \/ /\ rgb[t] = "null"
        /\ Goto(t, "done")
        /\ UNCHANGED << heapBytes, heapInts, call, yuv, rgb, rgbCopy,
                        frameSize, i, x, yp, uvp, y, u, v, vAt, uAt, reads, writes, released >>
     \/ /\ rgb[t] = "null"
        /\ Fault

Next ==
  \E t \in Threads :
    \/ GetByteArrayElements(t)
    \/ GetIntArrayElements(t)
    \/ ComputeFrameSize(t)
    \/ RowBegin(t)
    \/ LoopExit(t)
    \/ ReadLuma(t)
    \/ RowEnd(t)
    \/ FetchChroma(t)
    \/ StorePixel(t)
    \/ ReleaseByteArrayElements(t)
    \/ ReleaseIntArrayElements(t)

Spec == Init /\ [][Next]_vars

SpecPixel == InitPixel /\ [][Next]_vars

\* ------------------------------------------------------------------------
\* Vocabulary of the properties
\* ------------------------------------------------------------------------
\* The Java arrays of the call of thread t.
In(t) == heapBytes[call[t].yuv420sp]

Out(t) == heapInts[call[t].rgbOut]

\* The words the native code has stored so far, wherever they currently are.
NativeRgb(t) == IF rgb[t] = "copy" THEN rgbCopy[t] ELSE Out(t)

\* A jbyte read as an unsigned byte.
UByte(b) == IF b < 0 THEN b + 256 ELSE b

PositiveEven(t) ==
  /\ call[t].width > 0 /\ call[t].height > 0
  /\ call[t].width % 2 = 0 /\ call[t].height % 2 = 0

Pixels(t) == call[t].width * call[t].height

LengthsFit(t) ==
  /\ ~MulOverflows(call[t].width, call[t].height)
  /\ Len(Out(t)) = Pixels(t)
  /\ Len(In(t)) - Pixels(t) = Pixels(t) \div 2
  /\ Pixels(t) % 2 = 0

\* The call of t meets the buffer contract.
ValidCall(t) == call[t].active /\ PositiveEven(t) /\ LengthsFit(t)

\* The JVM handed out both buffers.
BuffersAcquired(t) == call[t].pinYuv = "ok" /\ call[t].pinRgb # "null"

\* A conversion proper: a valid call whose two buffers were acquired.
Conversion(t) == ValidCall(t) /\ BuffersAcquired(t)

\* Width or height odd, or an array length that differs from the required one.
PreconditionViolated(t) ==
  /\ call[t].active
  /\ \/ call[t].width % 2 = 1
     \/ call[t].height % 2 = 1
     \/ ~LengthsFit(t)

\* Output indices stored so far.
Stored(t) == {writes[t][n] : n \in 1..Len(writes[t])}

\* NV21 layout: the chroma pair of pixel k (row-major) of the frame of t.
VOffset(t, k) ==
  Pixels(t) + ((k \div call[t].width) \div 2) * call[t].width
    + 2 * ((k % call[t].width) \div 2)

UOffset(t, k) == VOffset(t, k) + 1

LumaByte(t, k) == UByte(In(t)[k + 1])

VByte(t, k) == UByte(In(t)[VOffset(t, k) + 1])

UByte2(t, k) == UByte(In(t)[UOffset(t, k) + 1])

Sat(n) == IF n < 0 THEN 0 ELSE IF n > 255 THEN 255 ELSE n

\* 0xFF000000 | (R << 16) | (G << 8) | B as a 32-bit word (a negative jint).
PackedWord(R, G, B) == -16777216 + R * 65536 + G * 256 + B

\* The word the fixed-point BT.601 formula prescribes for bytes Y, V, U.
FormulaWord(Y, V, U) ==
  LET yq == IF Y - 16 < 0 THEN 0 ELSE Y - 16
      uq == U - 128
      vq == V - 128
      R == Sat(((1192 * yq + 1634 * vq) \div 1024) + 2)
      G == Sat(((1192 * yq - 833 * vq - 400 * uq) \div 1024) + 2)
      B == Sat(((1192 * yq + 2066 * uq) \div 1024) + 2)
  IN  PackedWord(R, G, B)

RedOf(wd) == (wd \div 65536) % 256

GreenOf(wd) == (wd \div 256) % 256

BlueOf(wd) == wd % 256

\* Every luma byte of the frame of t is Y and every chroma pair is (V, U).
IsUniform(t, Y, V, U) ==
  In(t) = Uniform(call[t].width, call[t].height, Y, V, U)

\* ------------------------------------------------------------------------
\* C1
\* ------------------------------------------------------------------------
\* C1: when a call made with a precondition violation (odd width or height,
\* or an input or output array of the wrong length) returns, every element of
\* the output array has the value it had before the call.
C1_ViolationLeavesOutputUntouched ==
  \A t \in Threads :
    (PreconditionViolated(t) /\ pc[t] = "done")
      => Out(t) = FreshInts(Len(Out(t)))

\* ------------------------------------------------------------------------
\* C2
\* ------------------------------------------------------------------------
\* C2 as stated: a frame of luma 16 and chroma 128 converts to words that are
\* all exactly 0xFF000000.
C2_UniformBlackIsZero ==
  \A t \in Threads :
    (Conversion(t) /\ pc[t] = "done" /\ IsUniform(t, 16, 128, 128))
      => \A k \in 1..Len(Out(t)) : Out(t)[k] = PackedWord(0, 0, 0)

\* C2 amended: for any positive even width and height, a frame of luma 16 and
\* chroma 128 converts to words that are all exactly 0xFF020202 (alpha 0xFF,
\* R = G = B = 2, the post-shift bias).
C2_UniformBlackIsBias ==
  \A t \in Threads :
    (Conversion(t) /\ pc[t] = "done" /\ IsUniform(t, 16, 128, 128))
      => /\ Len(Out(t)) = Pixels(t)
         /\ \A k \in 1..Len(Out(t)) : Out(t)[k] = PackedWord(2, 2, 2)

C2_Witness ==
  \E t \in Threads :
    /\ Conversion(t) /\ pc[t] = "done" /\ IsUniform(t, 16, 128, 128)
    /\ call[t].width >= 4
    /\ Out(t)[Len(Out(t))] = PackedWord(2, 2, 2)

\* ------------------------------------------------------------------------
\* C3
\* ------------------------------------------------------------------------
\* C3: a valid call reads only input indices in [0, width*height*3/2) and
\* writes only output indices in [0, width*height), never one twice; when it
\* returns every output index has been written exactly once and every input
\* index has been read.
C3_SizeClosure ==
  \A t \in Threads :
    Conversion(t) =>
      /\ reads[t] \subseteq 0..(Len(In(t)) - 1)
      /\ Stored(t) \subseteq 0..(Pixels(t) - 1)
      /\ Cardinality(Stored(t)) = Len(writes[t])
      /\ pc[t] = "done" =>
           /\ Stored(t) = 0..(Pixels(t) - 1)
           /\ reads[t] = 0..(Len(In(t)) - 1)

C3_Witness ==
  \E t \in Threads :
    /\ Conversion(t) /\ pc[t] = "done"
    /\ call[t].height >= 4
    /\ Len(writes[t]) = Pixels(t)
    /\ Cardinality(reads[t]) = Len(In(t))

\* ------------------------------------------------------------------------
\* C4
\* ------------------------------------------------------------------------
\* C4: every word stored by a conversion equals the word the formula gives
\* for the pixel's luma byte and its chroma pair read as unsigned bytes
\* (floor division by 1024, +2, exact saturation), so its alpha byte is 0xFF.
C4_PixelFormula ==
  \A t \in Threads :
    Conversion(t) =>
      \A k \in Stored(t) :
        /\ NativeRgb(t)[k + 1] =
             FormulaWord(LumaByte(t, k), VByte(t, k), UByte2(t, k))
        /\ (NativeRgb(t)[k + 1] \div 16777216) % 256 = 255

\* a pixel whose red saturates high and whose blue saturates low
C4_Witness ==
  \E t \in Threads :
    /\ Conversion(t) /\ pc[t] = "done"
    /\ LumaByte(t, 0) = 235 /\ VByte(t, 0) = 255 /\ UByte2(t, 0) = 0
    /\ RedOf(Out(t)[1]) = 255 /\ BlueOf(Out(t)[1]) = 0

\* ------------------------------------------------------------------------
\* C5
\* ------------------------------------------------------------------------
\* C5: whenever a conversion is about to store pixel (x, i), the v and u in
\* use were loaded from input offsets width*height + (i/2)*width + 2*(x/2)
\* and that plus one; hence when it returns, the four pixels of every 2x2
\* block carry the word of their own luma and of the one chroma pair at
\* width*height + r*width + 2c (V) and + 1 (U).
C5_ChromaSharing ==
  \A t \in Threads :
    Conversion(t) =>
      /\ pc[t] = "store" =>
           /\ vAt[t] = VOffset(t, yp[t])
           /\ uAt[t] = UOffset(t, yp[t])
           /\ yp[t] = i[t] * call[t].width + x[t]
           /\ v[t] = UByte(In(t)[vAt[t] + 1]) - 128
           /\ u[t] = UByte(In(t)[uAt[t] + 1]) - 128
      /\ pc[t] = "done" =>
           \A c \in 0..((call[t].width \div 2) - 1), r \in 0..((call[t].height \div 2) - 1) :
             \A dx \in 0..1, dy \in 0..1 :
               LET k == (2 * r + dy) * call[t].width + 2 * c + dx
                   vb == UByte(In(t)[Pixels(t) + r * call[t].width + 2 * c + 1])
                   ub == UByte(In(t)[Pixels(t) + r * call[t].width + 2 * c + 2])
               IN  Out(t)[k + 1] = FormulaWord(LumaByte(t, k), vb, ub)

\* the last pixel of a second block row, on a frame whose chroma pairs differ
C5_Witness ==
  \E t \in Threads :
    /\ Conversion(t) /\ pc[t] = "store"
    /\ i[t] = 3 /\ x[t] = 3
    /\ In(t)[VOffset(t, yp[t]) + 1] # In(t)[VOffset(t, 0) + 1]
    /\ vAt[t] = VOffset(t, yp[t])

\* ------------------------------------------------------------------------
\* C6
\* ------------------------------------------------------------------------
\* C6: when a call has returned, each handle it acquired has been released
\* exactly once and none that it did not acquire; a call that failed to
\* acquire a handle never reads or writes through it and does not bring the
\* process down.
C6_HandlesReleasedOnEveryPath ==
  \A t \in Threads :
    call[t].active =>
      /\ pc[t] = "done" =>
           /\ released[t].yuv = (IF call[t].pinYuv = "ok" THEN 1 ELSE 0)
           /\ released[t].rgb = (IF call[t].pinRgb # "null" THEN 1 ELSE 0)
      /\ yuv[t] = "null" => (reads[t] = {} /\ pc[t] # "crashed")
      /\ rgb[t] = "null" => (writes[t] = << >> /\ pc[t] # "crashed")

\* ------------------------------------------------------------------------
\* C7
\* ------------------------------------------------------------------------
\* C7: for every positive even width and height, once computed, frameSize is
\* the mathematical product width*height (not negative, not wrapped), and yp
\* and the chroma cursor are the mathematical i*width + x and
\* frameSize + (i>>1)*width + 2*(x>>1).
C7_IndexArithmeticExact ==
  \A t \in Threads :
    (call[t].active /\ PositiveEven(t)
       /\ pc[t] \in {"row", "col", "chroma", "store", "relYuv", "relRgb", "done"})
      => /\ frameSize[t] >= 0
         /\ frameSize[t] % call[t].width = 0
         /\ frameSize[t] \div call[t].width = call[t].height
         /\ pc[t] = "chroma" =>
              /\ yp[t] = i[t] * call[t].width + x[t]
              /\ uvp[t] - frameSize[t] = (i[t] \div 2) * call[t].width + 2 * (x[t] \div 2)

\* ------------------------------------------------------------------------
\* C8
\* ------------------------------------------------------------------------
\* C8: for stored pixels whose chroma pair is (128, 128) and whose luma is in
\* 16..235, R = G = B, and the channel value does not decrease when the luma
\* increases.
C8_GrayAxisMonotone ==
  \A t \in Threads :
    Conversion(t) =>
      \A k1 \in Stored(t), k2 \in Stored(t) :
        ( /\ VByte(t, k1) = 128 /\ UByte2(t, k1) = 128
          /\ VByte(t, k2) = 128 /\ UByte2(t, k2) = 128
          /\ LumaByte(t, k1) \in 16..235 /\ LumaByte(t, k2) \in 16..235
          /\ LumaByte(t, k1) <= LumaByte(t, k2) )
        => LET w1 == NativeRgb(t)[k1 + 1]
               w2 == NativeRgb(t)[k2 + 1]
           IN  /\ RedOf(w1) = GreenOf(w1) /\ GreenOf(w1) = BlueOf(w1)
               /\ RedOf(w2) = GreenOf(w2) /\ GreenOf(w2) = BlueOf(w2)
               /\ RedOf(w1) <= RedOf(w2)

\* two neighbouring grays that come out different
C8_Witness ==
  \E t \in Threads :
    /\ Conversion(t) /\ pc[t] = "done"
    /\ VByte(t, 0) = 128 /\ UByte2(t, 0) = 128
    /\ LumaByte(t, 0) = 100 /\ LumaByte(t, 1) = 101
    /\ RedOf(Out(t)[1]) < RedOf(Out(t)[2])

\* ------------------------------------------------------------------------
\* C9
\* ------------------------------------------------------------------------
\* The output of the call run alone: pixel by pixel in row-major order, the
\* chroma cursor restarted at each row.
SequentialRun(in, w, h) ==
  [k \in 1..(w * h) |->
     LET row == (k - 1) \div w
         col == (k - 1) % w
         at == w * h + (row \div 2) * w + 2 * (col \div 2)
     IN  Argb(LumaOf(in[k]), ChromaOf(in[at + 2]), ChromaOf(in[at + 1]))]

\* C9: under every interleaving of two calls with their own output arrays
\* (and possibly one shared input array), a call that has returned has
\* produced exactly the output of the same call run alone, and two returned
\* calls with identical inputs have identical outputs.
C9_InterleavingEqualsSequential ==
  /\ \A t \in Threads :
       (Conversion(t) /\ pc[t] = "done")
         => Out(t) = SequentialRun(In(t), call[t].width, call[t].height)
  /\ \A s \in Threads, t \in Threads :
       ( /\ Conversion(s) /\ Conversion(t)
         /\ pc[s] = "done" /\ pc[t] = "done"
         /\ In(s) = In(t)
         /\ call[s].width = call[t].width /\ call[s].height = call[t].height )
       => Out(s) = Out(t)

\* both calls have returned after running on the same input array
C9_Witness ==
  /\ \A t \in Threads : Conversion(t) /\ pc[t] = "done"
  /\ call["t1"].yuv420sp = call["t2"].yuv420sp
  /\ call["t1"].rgbOut # call["t2"].rgbOut
  /\ Out("t1") = Out("t2")

\* ------------------------------------------------------------------------
\* C10
\* ------------------------------------------------------------------------
\* C10: a stored pixel whose luma byte is below 16 carries the same word as a
\* stored pixel of luma 16 with the same chroma pair.
C10_BelowPedestal ==
  \A t \in Threads :
    Conversion(t) =>
      \A k1 \in Stored(t), k2 \in Stored(t) :
        ( /\ LumaByte(t, k1) < 16 /\ LumaByte(t, k2) = 16
          /\ VByte(t, k1) = VByte(t, k2) /\ UByte2(t, k1) = UByte2(t, k2) )
        => NativeRgb(t)[k1 + 1] = NativeRgb(t)[k2 + 1]

C10_Witness ==
  \E t \in Threads :
    /\ Conversion(t) /\ pc[t] = "done"
    /\ LumaByte(t, 0) = 0 /\ LumaByte(t, 1) = 16
    /\ VByte(t, 0) = 240 /\ UByte2(t, 0) = 90
    /\ Out(t)[1] = Out(t)[2]

====
